---------------------------- MODULE Spec2Model ----------------------------
(***************************************************************************)
(* Dialogue state machine of the NC 311 agent (src/app.py).                *)
(*                                                                         *)
(* Text is modelled by TLA+ strings and the Python string operations the   *)
(* code uses (strip, lower, re.sub, `in`, split, title, upper, slicing)    *)
(* are computed character by character.  The session state is the          *)
(* st.session_state of the Streamlit script; one action stands for one     *)
(* script run triggered by a widget (chat input, sidebar buttons).         *)
(***************************************************************************)
EXTENDS Integers, Sequences, FiniteSets, TLC

VARIABLES
    city_cfg,        \* st.session_state.city_cfg: [meta, services]
    messages,        \* transcript entries appended since the last user entry
    active_intent,   \* st.session_state.active_intent (NoIntent for None)
    pending_fields,  \* st.session_state.pending_fields
    filled_fields,   \* st.session_state.filled_fields: field name -> value
    ticket_log,      \* st.session_state.ticket_log
    addr_provider,   \* st.session_state.addr_provider
    db,              \* rows of table tickets, keyed by ticket_id
    raised,          \* the exception that ended the last script run, or NoError
    lists,           \* the "fields" list objects of NC_JURIS_CONFIG, by address
    profiles,        \* the profiles a caller of make_city_profile holds
    arg,             \* the argument of a call of normalize or detect_intent
    ret              \* the function called on arg and what it returned

vars == <<city_cfg, messages, active_intent, pending_fields, filled_fields,
          ticket_log, addr_provider, db, raised, lists, profiles, arg, ret>>

\* the variables no script run assigns
aux == <<lists, profiles, arg, ret>>

-----------------------------------------------------------------------------
(* Python string operations *)

Char(s, i) == SubSeq(s, i, i)

UpperAlpha == "ABCDEFGHIJKLMNOPQRSTUVWXYZ"
LowerAlpha == "abcdefghijklmnopqrstuvwxyz"
Digits == "0123456789"
Whitespace == " \t\n"

InStr(c, alphabet) == \E k \in 1..Len(alphabet) : Char(alphabet, k) = c

IsSpace(c) == InStr(c, Whitespace)
IsDigit(c) == InStr(c, Digits)
IsAlpha(c) == InStr(c, UpperAlpha) \/ InStr(c, LowerAlpha)

Translate(c, from, to) ==
    IF InStr(c, from)
    THEN Char(to, CHOOSE k \in 1..Len(from) : Char(from, k) = c)
    ELSE c

LowerChar(c) == Translate(c, UpperAlpha, LowerAlpha)
UpperChar(c) == Translate(c, LowerAlpha, UpperAlpha)

\* The strings below are built from the images of the characters i..j of s,
\* joined in order (the range is halved to keep the recursion shallow).

\* str.lower()
RECURSIVE LowerRange(_, _, _)
LowerRange(s, i, j) ==
    IF i > j THEN ""
    ELSE IF i = j THEN LowerChar(Char(s, i))
    ELSE LowerRange(s, i, (i + j) \div 2) \o LowerRange(s, (i + j) \div 2 + 1, j)

lower(s) == LowerRange(s, 1, Len(s))

\* str.upper()
RECURSIVE UpperRange(_, _, _)
UpperRange(s, i, j) ==
    IF i > j THEN ""
    ELSE IF i = j THEN UpperChar(Char(s, i))
    ELSE UpperRange(s, i, (i + j) \div 2) \o UpperRange(s, (i + j) \div 2 + 1, j)

upper(s) == UpperRange(s, 1, Len(s))

\* str.strip(chars): drop the leading and trailing characters that are in chars
strip_chars(s, chars) ==
    LET keep == {i \in 1..Len(s) : ~InStr(Char(s, i), chars)}
    IN  IF keep = {} THEN ""
        ELSE LET first == CHOOSE i \in keep : \A j \in keep : i <= j
                 last  == CHOOSE i \in keep : \A j \in keep : j <= i
             IN  SubSeq(s, first, last)

\* str.strip()
strip(s) == strip_chars(s, Whitespace)

\* re.sub(r"\s+", " ", s): every maximal whitespace run becomes one space
CollapseChar(s, i) ==
    IF IsSpace(Char(s, i))
    THEN IF i > 1 /\ IsSpace(Char(s, i - 1)) THEN "" ELSE " "
    ELSE Char(s, i)

RECURSIVE CollapseRange(_, _, _)
CollapseRange(s, i, j) ==
    IF i > j THEN ""
    ELSE IF i = j THEN CollapseChar(s, i)
    ELSE CollapseRange(s, i, (i + j) \div 2) \o CollapseRange(s, (i + j) \div 2 + 1, j)

collapse_ws(s) == CollapseRange(s, 1, Len(s))

\* k in t
Contains(t, k) ==
    \E i \in 1..(Len(t) + 1) :
        i + Len(k) - 1 <= Len(t) /\ SubSeq(t, i, i + Len(k) - 1) = k

\* index of the first occurrence of k in t (k occurs in t)
Find(t, k) ==
    CHOOSE i \in 1..(Len(t) + 1) :
        /\ i + Len(k) - 1 <= Len(t)
        /\ SubSeq(t, i, i + Len(k) - 1) = k
        /\ \A j \in 1..(i - 1) : SubSeq(t, j, j + Len(k) - 1) # k

\* t.split(k, 1)[0] and t.split(k, 1)[1]
SplitBefore(t, k) == IF Contains(t, k) THEN SubSeq(t, 1, Find(t, k) - 1) ELSE t
SplitAfter(t, k) == SubSeq(t, Find(t, k) + Len(k), Len(t))

\* s[:n]
Prefix(s, n) == SubSeq(s, 1, IF Len(s) < n THEN Len(s) ELSE n)

\* str.endswith(suffix)
EndsWith(s, suffix) ==
    Len(suffix) <= Len(s) /\ SubSeq(s, Len(s) - Len(suffix) + 1, Len(s)) = suffix

\* str.title(): a letter is uppercased after a non-letter, lowercased after a letter
TitleChar(s, i) ==
    IF i > 1 /\ IsAlpha(Char(s, i - 1))
    THEN LowerChar(Char(s, i)) ELSE UpperChar(Char(s, i))

RECURSIVE TitleRange(_, _, _)
TitleRange(s, i, j) ==
    IF i > j THEN ""
    ELSE IF i = j THEN TitleChar(s, i)
    ELSE TitleRange(s, i, (i + j) \div 2) \o TitleRange(s, (i + j) \div 2 + 1, j)

title(s) == TitleRange(s, 1, Len(s))

-----------------------------------------------------------------------------
(* Utils *)

\* A variant that trims blanks only
normalize_StripSpaces(txt) == collapse_ws(lower(strip_chars(txt, " ")))

normalize(txt) == collapse_ws(lower(strip(txt)))

contains_any(text, keys) == \E k \in keys : Contains(normalize(text), k)

\* ZIP_RE.match(val): five digits, then the end of the string or a final newline
ZIP_RE_match(val) ==
    /\ Len(val) \in {5, 6}
    /\ \A i \in 1..5 : IsDigit(Char(val, i))
    /\ Len(val) = 6 => Char(val, 6) = "\n"

make_ticket(prefix, date, rnd) == prefix \o "-" \o date \o "-" \o rnd

-----------------------------------------------------------------------------
(* Values held by filled_fields and ticket payloads: a str, None, or the    *)
(* address_verified dict.                                                   *)

VStr(x) == [t |-> "str", v |-> x]
VNone == [t |-> "None"]
VDict(geo, prov_label) ==
    [t |-> "dict", matched |-> geo.matched, city |-> geo.city, state |-> geo.state,
     zip |-> geo.zip, lat |-> geo.lat, lon |-> geo.lon, provider |-> prov_label]

EmptyDict == << >>

\* d[k] = v
Put(d, k, v) == [x \in (DOMAIN d) \cup {k} |-> IF x = k THEN v ELSE d[x]]

\* d.get(k) or "", for a key holding a str or None
GetOrEmpty(d, k) == IF k \in DOMAIN d /\ d[k].t = "str" THEN d[k].v ELSE ""

NoIntent == "None"
NoError == "None"

-----------------------------------------------------------------------------
(* NC jurisdiction config: per city, service key -> descriptor.  Of a       *)
(* descriptor the model keeps the field list and whether sla_days is set.   *)

MorrisvilleServices ==
    [pothole         |-> [fields |-> <<"street_address", "description", "photo_url_optional">>,
                          sla_days |-> "5"],
     trash_schedule  |-> [fields |-> <<"street_address", "zip_optional">>],
     noise_complaint |-> [fields |-> <<"location", "description">>],
     streetlight     |-> [fields |-> <<"nearest_address", "pole_number_optional", "description">>,
                          sla_days |-> "7"],
     stray_animal    |-> [fields |-> <<"location", "animal_type", "description">>],
     general_info    |-> [fields |-> << >>]]

\* Raleigh, Durham, Cary, ... High Point: the same five descriptors up to text
TownServices ==
    [pothole         |-> [fields |-> <<"street_address", "description", "photo_url_optional">>],
     trash_schedule  |-> [fields |-> <<"street_address", "zip_optional">>],
     noise_complaint |-> [fields |-> <<"location", "description">>],
     streetlight     |-> [fields |-> <<"nearest_address", "description">>],
     general_info    |-> [fields |-> << >>]]

DefaultServices ==
    [pothole         |-> [fields |-> <<"street_address", "description", "photo_url_optional">>],
     trash_schedule  |-> [fields |-> <<"street_address", "zip_optional">>],
     noise_complaint |-> [fields |-> <<"location", "description">>],
     streetlight     |-> [fields |-> <<"nearest_address", "description">>],
     stray_animal    |-> [fields |-> <<"location", "animal_type", "description">>],
     general_info    |-> [fields |-> << >>]]

NC_CITIES ==
    {"Apex", "Asheville", "Cary", "Chapel Hill", "Charlotte", "Durham", "Fayetteville",
     "Greensboro", "High Point", "Morrisville", "Raleigh", "Wake Forest", "Wilmington"}

NC_JURIS_CONFIG ==
    [c \in NC_CITIES \cup {"_DEFAULT"} |->
        IF c = "Morrisville" THEN MorrisvilleServices
        ELSE IF c = "_DEFAULT" THEN DefaultServices
        ELSE TownServices]

\* The list objects of the literal: one per catalog key and service, at the
\* address <<key, service>>
CatalogLists ==
    [a \in {<<c, k>> : c \in DOMAIN NC_JURIS_CONFIG,
                      k \in DOMAIN DefaultServices \cup DOMAIN MorrisvilleServices} |->
        IF a[2] \in DOMAIN NC_JURIS_CONFIG[a[1]]
        THEN NC_JURIS_CONFIG[a[1]][a[2]].fields ELSE << >>]

\* no call made yet
NoCall == [fn |-> "None"]

make_city_profile(city, state) ==
    LET base == IF city \in DOMAIN NC_JURIS_CONFIG
                THEN NC_JURIS_CONFIG[city] ELSE NC_JURIS_CONFIG["_DEFAULT"]
    IN  [meta |-> [city |-> city, state |-> state],
         services |-> [k \in DOMAIN base |-> base[k]]]

-----------------------------------------------------------------------------
(* Geocoding.  The providers are the environment: a turn draws what the     *)
(* provider answers to the query with the city hint and to the bare query   *)
(* (NoMatch: no result, timeout or error, all returned as None).            *)

NoMatch == [found |-> FALSE]

IsMatch(g) == g.found

ProviderNames == {"Census (free)", "OpenStreetMap (Nominatim)", "Google (Geocoding)"}

geocode_census(city_hint, hinted, bare) ==
    IF city_hint = "" THEN bare
    ELSE IF IsMatch(hinted) THEN hinted ELSE bare

geocode_nominatim(hinted) == hinted

geocode_google(google_key, answer) == IF google_key THEN answer ELSE NoMatch

geocode_any(city_hint, provider, google_key, hinted, bare) ==
    IF provider = "Google (Geocoding)" /\ google_key
    THEN IF IsMatch(geocode_google(google_key, hinted))
         THEN geocode_google(google_key, hinted)
         ELSE geocode_google(google_key, bare)
    ELSE IF provider = "OpenStreetMap (Nominatim)"
         THEN geocode_nominatim(hinted)
         ELSE geocode_census(city_hint, hinted, bare)

prov_label_of(provider) ==
    CASE provider = "Census (free)" -> "Census"
      [] provider = "OpenStreetMap (Nominatim)" -> "Nominatim"
      [] provider = "Google (Geocoding)" -> "Google"
      [] OTHER -> provider

-----------------------------------------------------------------------------
(* NLU / slot config *)

INTENT_PATTERNS ==
    << [intent |-> "pothole",
        keys |-> {"pothole", "road hole", "asphalt", "road damage", "street crack"}],
       [intent |-> "trash_schedule",
        keys |-> {"trash", "garbage", "recycle", "pickup", "collection", "bin"}],
       [intent |-> "noise_complaint",
        keys |-> {"noise", "loud", "party", "music", "construction noise"}],
       [intent |-> "streetlight",
        keys |-> {"streetlight", "light out", "lamp", "street light"}],
       [intent |-> "stray_animal",
        keys |-> {"stray", "dog", "cat", "animal control", "lost pet"}],
       [intent |-> "general_info",
        keys |-> {"info", "information", "hours", "phone", "contact", "permit", "parks"}] >>

REQUIRED_FIELDS ==
    [pothole         |-> <<"street_address", "description">>,
     trash_schedule  |-> <<"street_address">>,
     noise_complaint |-> <<"location", "description">>,
     streetlight     |-> <<"nearest_address">>,
     stray_animal    |-> <<"location", "animal_type">>]

AdaptPhrase == "yes please adapt this to my city's open data and services categories"

\* A variant in which the last matching row of the table wins
detect_intent_LastMatch(text) ==
    LET t == normalize(text)
        hits == {i \in 1..Len(INTENT_PATTERNS) : contains_any(t, INTENT_PATTERNS[i].keys)}
    IN  IF Contains(t, AdaptPhrase) THEN "adapt_city"
        ELSE IF hits # {}
             THEN INTENT_PATTERNS[CHOOSE i \in hits : \A j \in hits : i >= j].intent
             ELSE IF t \in {"help", "menu", "hi", "hello", "start"} THEN "menu"
                  ELSE "unknown"

detect_intent(text) ==
    LET t == normalize(text)
        hits == {i \in 1..Len(INTENT_PATTERNS) : contains_any(t, INTENT_PATTERNS[i].keys)}
    IN  IF Contains(t, AdaptPhrase) THEN "adapt_city"
        ELSE IF hits # {}
             THEN INTENT_PATTERNS[CHOOSE i \in hits : \A j \in hits : i <= j].intent
             ELSE IF t \in {"help", "menu", "hi", "hello", "start"} THEN "menu"
                  ELSE "unknown"

FIELD_QUESTIONS ==
    [street_address       |-> "What is the street address?",
     nearest_intersection |-> "What is the nearest intersection?",
     description          |-> "Please describe the issue briefly.",
     photo_url_optional   |-> "If you have a photo URL, share it (or say 'skip').",
     zip_optional         |-> "What is the ZIP code? (or say 'skip')",
     incident_time        |-> "When did this happen? (date & time)",
     location             |-> "Where did this occur? (address, landmark or intersection)",
     pole_number_optional |-> "If you see a pole number, share it (or say 'skip').",
     nearest_address      |-> "What is the nearest address to the light?",
     animal_type          |-> "What kind of animal is it?"]

-----------------------------------------------------------------------------
(* Transcript entries.  A reply is kept as the kind of message and the      *)
(* values formatted into it.                                                *)

UserMsg(text) == [role |-> "user", content |-> [kind |-> "text", text |-> text]]
Reply(c) == [role |-> "assistant", content |-> c]

Greeting == Reply([kind |-> "greeting"])

-----------------------------------------------------------------------------
(* Helpers.  A session s is the record of the st.session_state entries.     *)

show_menu(s) == [kind |-> "menu", services |-> DOMAIN s.city_cfg.services]

\* A variant that asks for the required fields only
OrderedFields_RequiredOnly(intent, cfg, filled) ==
    LET req == IF intent \in DOMAIN REQUIRED_FIELDS THEN REQUIRED_FIELDS[intent] ELSE << >>
        Open(f) == f \notin DOMAIN filled
    IN  SelectSeq(req, Open)

\* A variant that asks again for the filled fields outside the required list
OrderedFields_KeepFilled(intent, cfg, filled) ==
    LET req == IF intent \in DOMAIN REQUIRED_FIELDS THEN REQUIRED_FIELDS[intent] ELSE << >>
        svc_fields == cfg.services[intent].fields
        InReq(f) == \E i \in 1..Len(req) : req[i] = f
        Open(f) == f \notin DOMAIN filled
        Extra(f) == ~InReq(f)
    IN  SelectSeq(req, Open) \o SelectSeq(svc_fields, Extra)

\* The ordered outstanding fields of the active intent
OrderedFields(intent, cfg, filled) ==
    LET req == IF intent \in DOMAIN REQUIRED_FIELDS THEN REQUIRED_FIELDS[intent] ELSE << >>
        svc_fields == cfg.services[intent].fields
        InReq(f) == \E i \in 1..Len(req) : req[i] = f
        Open(f) == f \notin DOMAIN filled
        OpenExtra(f) == ~InReq(f) /\ f \notin DOMAIN filled
    IN  SelectSeq(req, Open) \o SelectSeq(svc_fields, OpenExtra)

\* next_slot_question(): the session with pending_fields recomputed, the
\* question returned ("" for None) and the exception raised, if any
next_slot_question(s) ==
    IF s.active_intent = NoIntent
    THEN [s |-> s, nxt |-> "", error |-> NoError]
    ELSE IF s.active_intent \notin DOMAIN s.city_cfg.services
         THEN [s |-> s, nxt |-> "", error |-> "KeyError"]
         ELSE LET ordered == OrderedFields(s.active_intent, s.city_cfg, s.filled_fields)
              IN  [s |-> [s EXCEPT !.pending_fields = ordered],
                   nxt |-> IF ordered = << >> THEN ""
                           ELSE IF Head(ordered) \in DOMAIN FIELD_QUESTIONS
                                THEN FIELD_QUESTIONS[Head(ordered)]
                                ELSE "Provide " \o Head(ordered) \o ":",
                   error |-> NoError]

maybe_ncdot_note(address) ==
    LET a == normalize(address)
    IN  \/ \E tag \in {" i-", " us-", " nc-"} : Contains(a, tag)
        \/ \E hwy \in {"i-40", "i 40", "nc 55", "nc-55", "us 1", "us-1"} : Contains(a, hwy)

\* the rules of lookup_trash_day in their order; "" for None
TrashRules ==
    << <<"davis dr", "Wednesday">>, <<"davis drive", "Wednesday">>,
       <<"morrisville parkway", "Thursday">>, <<"chapel hill rd", "Thursday">>,
       <<"nc 55", "Monday">>, <<"nc-55", "Monday">> >>

lookup_trash_day(address) ==
    LET a == normalize(address)
        hits == {i \in 1..Len(TrashRules) : Contains(a, TrashRules[i][1])}
    IN  IF hits = {} THEN ""
        ELSE TrashRules[CHOOSE i \in hits : \A j \in hits : i <= j][2]

\* A variant that keeps the latest ticket only in the session's log
finalize_case_Overwrite(s, date, rnd, db_ok) ==
    LET intent == s.active_intent
        meta == s.city_cfg.meta
        svc == s.city_cfg.services[intent]
        prefix == upper(IF Prefix(meta.city, 2) = "" THEN "NC" ELSE Prefix(meta.city, 2))
        ticket_id == make_ticket(prefix, date, rnd)
        payload0 == s.filled_fields
        addr == IF GetOrEmpty(payload0, "street_address") # ""
                THEN GetOrEmpty(payload0, "street_address")
                ELSE GetOrEmpty(payload0, "nearest_address")
        payload1 == IF intent \in {"pothole", "streetlight"} /\ maybe_ncdot_note(addr)
                    THEN Put(payload0, "note", VStr("NCDOT")) ELSE payload0
        est == lookup_trash_day(GetOrEmpty(payload1, "street_address"))
        payload == IF intent = "trash_schedule" /\ est # ""
                   THEN Put(payload1, "estimated_pickup_day", VStr(est)) ELSE payload1
        row == [ticket_id |-> ticket_id, service |-> intent, city |-> meta.city,
                state |-> meta.state, payload |-> payload, created_at |-> date]
        logged == [s EXCEPT !.ticket_log = <<row>>]
    IN  IF ~db_ok
        THEN [s |-> logged, msg |-> [kind |-> "none"], error |-> "sqlite3.Error"]
        ELSE [s |-> [logged EXCEPT !.db = Put(@, ticket_id, row)],
              msg |-> [kind |-> "submitted", intent |-> intent, ticket_id |-> ticket_id,
                       city |-> meta.city, state |-> meta.state, payload |-> payload,
                       sla |-> "sla_days" \in DOMAIN svc],
              error |-> NoError]

\* finalize_case(): the session with the ticket logged and saved, the
\* confirmation message and the exception raised, if any
finalize_case(s, date, rnd, db_ok) ==
    LET intent == s.active_intent
        meta == s.city_cfg.meta
        svc == s.city_cfg.services[intent]
        prefix == upper(IF Prefix(meta.city, 2) = "" THEN "NC" ELSE Prefix(meta.city, 2))
        ticket_id == make_ticket(prefix, date, rnd)
        payload0 == s.filled_fields
        addr == IF GetOrEmpty(payload0, "street_address") # ""
                THEN GetOrEmpty(payload0, "street_address")
                ELSE GetOrEmpty(payload0, "nearest_address")
        payload1 == IF intent \in {"pothole", "streetlight"} /\ maybe_ncdot_note(addr)
                    THEN Put(payload0, "note", VStr("NCDOT")) ELSE payload0
        est == lookup_trash_day(GetOrEmpty(payload1, "street_address"))
        payload == IF intent = "trash_schedule" /\ est # ""
                   THEN Put(payload1, "estimated_pickup_day", VStr(est)) ELSE payload1
        row == [ticket_id |-> ticket_id, service |-> intent, city |-> meta.city,
                state |-> meta.state, payload |-> payload, created_at |-> date]
        logged == [s EXCEPT !.ticket_log = Append(@, row)]
    IN  IF ~db_ok
        THEN [s |-> logged, msg |-> [kind |-> "none"], error |-> "sqlite3.Error"]
        ELSE [s |-> [logged EXCEPT !.db = Put(@, ticket_id, row)],
              msg |-> [kind |-> "submitted", intent |-> intent, ticket_id |-> ticket_id,
                       city |-> meta.city, state |-> meta.state, payload |-> payload,
                       sla |-> "sla_days" \in DOMAIN svc],
              error |-> NoError]

-----------------------------------------------------------------------------
(* Dispatcher (with geocoding + ZIP validation) *)

Say(s, c) == [s EXCEPT !.messages = Append(@, Reply(c))]

ClearForm(s) ==
    [s EXCEPT !.active_intent = NoIntent, !.pending_fields = << >>,
              !.filled_fields = EmptyDict]

\* A variant that knows the word "reset" only
IsReset_OnlyReset(tnorm) == tnorm = "reset"

IsReset(tnorm) == tnorm \in {"reset", "restart", "start over"}

\* lines 413-418: a global command
GlobalReset(s) == Say(ClearForm(s), [kind |-> "reset"])

\* A variant of the menu branch that abandons the form
MidFormMenu_Abandon(s) == Say(ClearForm(s), show_menu(s))

\* lines 422-423: menu while a form is in progress
MidFormMenu(s) == Say(s, show_menu(s))

\* A variant of the cancel branch that keeps the answers given so far
MidFormCancel_KeepFilled(s) ==
    Say([s EXCEPT !.active_intent = NoIntent, !.pending_fields = << >>],
        [kind |-> "canceled"])

\* lines 424-429: cancel while a form is in progress
MidFormCancel(s) == Say(ClearForm(s), [kind |-> "canceled"])

\* A variant of the guard that never takes the mid-form branch
MidForm_Never(s) == FALSE

\* the guard of the mid-form branch
MidForm(s) == s.active_intent # NoIntent /\ s.pending_fields # << >>

\* A variant without ZIP validation
ZipRejected_Never(field, val) == FALSE

\* the ZIP validation nudge applies
ZipRejected(field, val) == field = "zip_optional" /\ val # "" /\ ~ZIP_RE_match(val)

\* A variant that takes skip as "no value" for every field
StoredValue_SkipAny(field, tnorm, val) ==
    IF tnorm = "skip" THEN VNone ELSE VStr(val)

\* the value stored for the answered field
StoredValue(field, tnorm, val) ==
    IF tnorm = "skip" /\ EndsWith(field, "_optional") THEN VNone ELSE VStr(val)

\* the answered field is geocoded
GeocodedField(field, val) == field \in {"street_address", "nearest_address"} /\ val # ""

\* A variant that knows the state by its full name only
SwitchCity_FullStateName(meta, detected_city, detected_state) ==
    /\ detected_state = "North Carolina"
    /\ detected_city # ""
    /\ detected_city # meta.city
    /\ detected_city \in DOMAIN NC_JURIS_CONFIG

\* the detected city replaces the city profile
SwitchCity(meta, detected_city, detected_state) ==
    /\ detected_state \in {"NC", "North Carolina"}
    /\ detected_city # ""
    /\ detected_city # meta.city
    /\ detected_city \in DOMAIN NC_JURIS_CONFIG

\* A variant that says nothing when the provider finds no match
Geocode_SilentFailure(s, val, provider, env) ==
    LET meta == s.city_cfg.meta
        prov_label == prov_label_of(provider)
        geo == geocode_any(meta.city, provider, env.google_key, env.hinted, env.bare)
    IN  IF ~IsMatch(geo)
        THEN s
        ELSE LET s1 == Say([s EXCEPT !.filled_fields =
                                Put(@, "address_verified", VDict(geo, prov_label))],
                           [kind |-> "verified", provider |-> prov_label,
                            matched |-> geo.matched])
                 detected_city == title(geo.city)
             IN  IF SwitchCity(meta, detected_city, geo.state)
                 THEN Say([s1 EXCEPT !.city_cfg =
                              make_city_profile(detected_city, "North Carolina")],
                          [kind |-> "switched", city |-> detected_city])
                 ELSE s1

\* lines 445-471: geocode the stored address, maybe switch the city
Geocode(s, val, provider, env) ==
    LET meta == s.city_cfg.meta
        prov_label == prov_label_of(provider)
        geo == geocode_any(meta.city, provider, env.google_key, env.hinted, env.bare)
    IN  IF ~IsMatch(geo)
        THEN Say(s, [kind |-> "unverified"])
        ELSE LET s1 == Say([s EXCEPT !.filled_fields =
                                Put(@, "address_verified", VDict(geo, prov_label))],
                           [kind |-> "verified", provider |-> prov_label,
                            matched |-> geo.matched])
                 detected_city == title(geo.city)
             IN  IF SwitchCity(meta, detected_city, geo.state)
                 THEN Say([s1 EXCEPT !.city_cfg =
                              make_city_profile(detected_city, "North Carolina")],
                          [kind |-> "switched", city |-> detected_city])
                 ELSE s1

\* A variant that leaves the form as it is after the ticket is made
Advance_KeepForm(s, env) ==
    LET q == next_slot_question(s)
    IN  IF q.error # NoError THEN [q.s EXCEPT !.raised = q.error]
        ELSE IF q.nxt # "" THEN Say(q.s, [kind |-> "question", text |-> q.nxt])
        ELSE LET f == finalize_case(q.s, env.date, env.rnd, env.db_ok)
             IN  IF f.error # NoError THEN [f.s EXCEPT !.raised = f.error]
                 ELSE Say(f.s, f.msg)

\* lines 473-482: ask the next question or finalize
Advance(s, env) ==
    LET q == next_slot_question(s)
    IN  IF q.error # NoError THEN [q.s EXCEPT !.raised = q.error]
        ELSE IF q.nxt # "" THEN Say(q.s, [kind |-> "question", text |-> q.nxt])
        ELSE LET f == finalize_case(q.s, env.date, env.rnd, env.db_ok)
             IN  IF f.error # NoError THEN [f.s EXCEPT !.raised = f.error]
                 ELSE Say(ClearForm(f.s), f.msg)

\* lines 431-482: the utterance answers the head pending field
ConsumeAnswer(s, u, provider, env) ==
    LET field == Head(s.pending_fields)
    IN  IF ZipRejected(field, u.val) THEN Say(s, [kind |-> "zip_nudge"])
        ELSE LET s1 == [s EXCEPT !.filled_fields =
                            Put(@, field, StoredValue(field, u.tnorm, u.val))]
                 s2 == IF GeocodedField(field, u.val)
                       THEN Geocode(s1, u.val, provider, env) ELSE s1
             IN  Advance(s2, env)

\* A variant of the adapt-city command whose reply does not name the city
AdaptCity_Unnamed(s, tnorm) ==
    LET parsed == Contains(tnorm, "name is") /\ Contains(tnorm, "in the state")
        city == IF parsed
                THEN title(strip_chars(SplitBefore(SplitAfter(tnorm, "name is"),
                                                   "in the state"), " .,:;"))
                ELSE "Your City"
        state == IF parsed
                 THEN title(strip_chars(SplitAfter(tnorm, "in the state"), " .,:;"))
                 ELSE "North Carolina"
    IN  Say([s EXCEPT !.city_cfg = make_city_profile(city, state)], [kind |-> "adapted"])

\* lines 489-499: the adapt-city command
AdaptCity(s, tnorm) ==
    LET parsed == Contains(tnorm, "name is") /\ Contains(tnorm, "in the state")
        city == IF parsed
                THEN title(strip_chars(SplitBefore(SplitAfter(tnorm, "name is"),
                                                   "in the state"), " .,:;"))
                ELSE "Your City"
        state == IF parsed
                 THEN title(strip_chars(SplitAfter(tnorm, "in the state"), " .,:;"))
                 ELSE "North Carolina"
    IN  Say([s EXCEPT !.city_cfg = make_city_profile(city, state)],
            [kind |-> "adapted", city |-> city, state |-> state])

\* lines 501-512: a service of the current city starts a form
StartForm(s, intent) ==
    LET q == next_slot_question([s EXCEPT !.active_intent = intent,
                                          !.filled_fields = EmptyDict])
    IN  IF q.nxt # ""
        THEN Say(q.s, [kind |-> "start", intent |-> intent, text |-> q.nxt])
        ELSE Say(q.s, [kind |-> "info", intent |-> intent])

\* lines 484-515: classify the utterance
FreshIntent(s, u) ==
    LET intent == u.intent
    IN  IF intent = "menu" THEN Say(s, show_menu(s))
        ELSE IF intent = "adapt_city" THEN AdaptCity(s, u.tnorm)
        ELSE IF intent \in DOMAIN s.city_cfg.services THEN StartForm(s, intent)
        ELSE Say(s, [kind |-> "fallback"])

\* What the dispatcher computes from the utterance alone: tnorm (line 410),
\* val (line 432) and the detected intent (line 485)
Heard(text) ==
    [text |-> text, tnorm |-> normalize(text), val |-> strip(text),
     intent |-> detect_intent(text)]

\* the session after push_user_and_process(u.text)
push_user_and_process(s0, u, provider, env) ==
    LET s == [s0 EXCEPT !.messages = <<UserMsg(u.text)>>, !.raised = NoError]
    IN  IF IsReset(u.tnorm) THEN GlobalReset(s)
        ELSE IF MidForm(s)
             THEN IF u.tnorm = "menu" THEN MidFormMenu(s)
                  ELSE IF u.tnorm = "cancel" THEN MidFormCancel(s)
                  ELSE ConsumeAnswer(s, u, provider, env)
             ELSE FreshIntent(s, u)

-----------------------------------------------------------------------------
(* The script runs.  in is the record of the inputs a specification draws:  *)
(* utterances, provider answers, clock and random values, sidebar choices.  *)

Session ==
    [city_cfg |-> city_cfg, messages |-> messages, active_intent |-> active_intent,
     pending_fields |-> pending_fields, filled_fields |-> filled_fields,
     ticket_log |-> ticket_log, db |-> db, raised |-> raised]

Install(s) ==
    /\ city_cfg' = s.city_cfg
    /\ messages' = s.messages
    /\ active_intent' = s.active_intent
    /\ pending_fields' = s.pending_fields
    /\ filled_fields' = s.filled_fields
    /\ ticket_log' = s.ticket_log
    /\ db' = s.db
    /\ raised' = s.raised

\* The environment of one call: the provider's answers to the hinted and to
\* the bare query, the clock, the random suffix, whether the INSERT succeeds.
\* The provider is drawn only in a call that can reach the geocoder.
Envs(in, s, u) ==
    LET asked == MidForm(s) /\ GeocodedField(Head(s.pending_fields), u.val)
    IN  {[hinted |-> g[1], bare |-> g[2], google_key |-> in.google_key,
          date |-> d, rnd |-> r, db_ok |-> ok] :
            g \in IF asked THEN in.geo ELSE {<<NoMatch, NoMatch>>},
            d \in in.dates, r \in in.rnds, ok \in in.db_ok}

\* lines 616-619: a chat input
ChatInput(in) ==
    /\ Len(ticket_log) < in.max_tickets
    /\ \E u \in in.utter :
          /\ u.text # ""
          /\ \E env \in Envs(in, Session, u) :
                Install(push_user_and_process(Session, u, addr_provider, env))
    /\ UNCHANGED <<addr_provider, aux>>

\* lines 530-533: the sidebar's Apply city button
ApplyCity(in) ==
    /\ \E selected_city \in in.cities :
          city_cfg' = make_city_profile(selected_city, "North Carolina")
    /\ raised' = NoError
    /\ UNCHANGED <<messages, active_intent, pending_fields, filled_fields,
                   ticket_log, addr_provider, db, aux>>

\* lines 538-539: the sidebar's provider selectbox
SelectProvider(in) ==
    /\ \E provider \in in.providers : addr_provider' = provider
    /\ raised' = NoError
    /\ UNCHANGED <<city_cfg, messages, active_intent, pending_fields, filled_fields,
                   ticket_log, db, aux>>

\* lines 598-603 and 612-614: the sidebar's Reset conversation button, then
\* the rerun that greets again
ResetConversation ==
    /\ messages' = <<Greeting>>
    /\ active_intent' = NoIntent
    /\ pending_fields' = << >>
    /\ filled_fields' = EmptyDict
    /\ raised' = NoError
    /\ UNCHANGED <<city_cfg, ticket_log, addr_provider, db, aux>>

\* lines 330-338 and 612-614: the session after the first script run
SessionInit ==
    /\ city_cfg = make_city_profile("Morrisville", "North Carolina")
    /\ messages = <<Greeting>>
    /\ active_intent = NoIntent
    /\ pending_fields = << >>
    /\ filled_fields = EmptyDict
    /\ ticket_log = << >>
    /\ addr_provider = "Census (free)"
    /\ db = EmptyDict
    /\ raised = NoError

Init ==
    /\ SessionInit
    /\ lists = CatalogLists
    /\ profiles = << >>
    /\ arg = ""
    /\ ret = NoCall

-----------------------------------------------------------------------------
(* Inputs *)

MaxTickets == 1

GeoMorrisville ==
    [found |-> TRUE, matched |-> "101 MAIN ST, MORRISVILLE, NC, 27560",
     city |-> "MORRISVILLE", state |-> "NC", zip |-> "27560", lat |-> "35.8", lon |-> "-78.8"]
GeoRaleigh ==
    [found |-> TRUE, matched |-> "101 MAIN ST, RALEIGH, NC, 27601",
     city |-> "RALEIGH", state |-> "NC", zip |-> "27601", lat |-> "35.7", lon |-> "-78.6"]

Inputs ==
    [utter |-> {Heard(t) : t \in
                {"report a pothole", "trash pickup day", "Streetlight out", "stray dog",
                 "general info", "menu", "cancel", "reset", "restart", "Start  Over",
                 "hello", "skip", "abc", "27560",
                 "Yes please adapt this to my city's open data and services categories. Name is cary in the state nc"}},
     geo |-> {<<NoMatch, NoMatch>>, <<GeoMorrisville, GeoMorrisville>>,
              <<GeoRaleigh, GeoRaleigh>>},
     google_key |-> FALSE,
     dates |-> {"261101"},
     rnds |-> {"1000"},
     db_ok |-> {TRUE},
     cities |-> {"Morrisville", "Raleigh"},
     providers |-> {"Census (free)"},
     max_tickets |-> MaxTickets]

Next ==
    \/ ChatInput(Inputs)
    \/ ApplyCity(Inputs)
    \/ SelectProvider(Inputs)
    \/ ResetConversation

Spec == Init /\ [][Next]_vars

-----------------------------------------------------------------------------
(* Vocabulary of the properties.  A property about a turn is an action      *)
(* property: Step(u) holds of the steps that are a chat input of u.         *)

Last(seq) == seq[Len(seq)]

Step(u) ==
    /\ messages'[1] = UserMsg(u.text)
    /\ Len(ticket_log) < Inputs.max_tickets
    /\ \E env \in Envs(Inputs, Session, u) :
          Install(push_user_and_process(Session, u, addr_provider, env))
    /\ UNCHANGED addr_provider

Collecting == active_intent # NoIntent /\ pending_fields # << >>

ResetWords == {"reset", "restart", "start over"}
ReservedWords == ResetWords \cup {"menu", "cancel"}

FiveDigits(x) == Len(x) = 5 /\ \A i \in 1..5 : Char(x, i) \in {"0", "1", "2", "3", "4", "5", "6", "7", "8", "9"}

OptionalMarked(f) == EndsWith(f, "_optional")

\* a non-reserved utterance given while Collecting
AnswerStep(u) == Step(u) /\ Collecting /\ u.tnorm \notin ReservedWords

\* ... that is not a malformed ZIP
AcceptedStep(u) ==
    /\ AnswerStep(u)
    /\ ~(Head(pending_fields) = "zip_optional" /\ u.val # "" /\ ~FiveDigits(u.val))

TicketCreated == Len(ticket_log') = Len(ticket_log) + 1

\* after the step, v is what the form (or the ticket it became) holds for f
StoredAs(f, v) ==
    \/ f \in DOMAIN filled_fields' /\ filled_fields'[f] = v
    \/ /\ TicketCreated
       /\ f \in DOMAIN Last(ticket_log').payload
       /\ Last(ticket_log').payload[f] = v

ReplyKinds(msgs) == {msgs[i].content.kind : i \in 2..Len(msgs)}

FormCleared == active_intent' = NoIntent /\ pending_fields' = << >> /\ filled_fields' = EmptyDict

\* required fields not filled, then the profile's other declared fields not filled
OutstandingFields(intent, profile, filled) ==
    LET req == IF intent \in DOMAIN REQUIRED_FIELDS THEN REQUIRED_FIELDS[intent] ELSE << >>
        declared == profile.services[intent].fields
        Unfilled(f) == f \notin DOMAIN filled
        Extra(f) == f \notin DOMAIN filled /\ \A i \in 1..Len(req) : req[i] # f
    IN  SelectSeq(req, Unfilled) \o SelectSeq(declared, Extra)

-----------------------------------------------------------------------------
\* C1: after every completed call the session is Idle or Collecting:
\* active_intent is present if and only if pending_fields is non-empty (so a
\* request for general_info leaves no active intent).
C1_IdleOrCollecting ==
    raised = NoError => ((active_intent # NoIntent) <=> (pending_fields # << >>))

C3_SkipSemantics ==
    [][\A u \in Inputs.utter :
         (Step(u) /\ Collecting /\ u.tnorm = "skip") =>
            IF OptionalMarked(Head(pending_fields))
            THEN /\ StoredAs(Head(pending_fields), VNone)
                 /\ pending_fields' # pending_fields
            ELSE StoredAs(Head(pending_fields), VStr(u.val))]_vars

\* C4: "trash pickup day" starts a trash_schedule form, and skip given for its
\* ZIP field completes it with a ticket whose payload holds null for that field.
C4_TrashSkipZip ==
    [][\A u \in Inputs.utter :
         /\ (Step(u) /\ ~Collecting /\ u.tnorm = "trash pickup day")
               => active_intent' = "trash_schedule"
         /\ (/\ Step(u) /\ Collecting /\ active_intent = "trash_schedule"
             /\ Head(pending_fields) = "zip_optional" /\ u.tnorm = "skip")
               => /\ TicketCreated
                  /\ Last(ticket_log').service = "trash_schedule"
                  /\ Last(ticket_log').payload["zip_optional"] = VNone
                  /\ FormCleared]_vars

VerificationKinds == {"verified", "unverified", "switched"}

Asked(f) == Reply([kind |-> "question", text |-> FIELD_QUESTIONS[f]])

PotholeAnswer(u, f) ==
    /\ AnswerStep(u)
    /\ active_intent = "pothole"
    /\ Head(pending_fields) = f
    /\ Len(ticket_log) < Inputs.max_tickets

\* C5 as claimed: "report a pothole" starts a pothole form that asks for the
\* street address; the answer to it is followed by the description question,
\* and the answer to that completes the form with a ticket confirmation.
C5_PotholeTwoAnswers ==
    [][\A u \in Inputs.utter :
         /\ (Step(u) /\ ~Collecting /\ u.tnorm = "report a pothole")
               => /\ active_intent' = "pothole"
                  /\ Last(messages').content.kind = "start"
                  /\ Last(messages').content.text = FIELD_QUESTIONS["street_address"]
         /\ PotholeAnswer(u, "street_address")
               => Last(messages') = Asked("description")
         /\ PotholeAnswer(u, "description")
               => /\ TicketCreated
                  /\ Last(messages').content.kind = "submitted"
                  /\ FormCleared]_vars

\* C5 amended: "report a pothole" starts a pothole form that asks for the
\* street address; the answer to it is followed (after the verification
\* replies) by the description question; the answer to that is followed by
\* the photo-URL question and no ticket; the answer to that, skip included,
\* completes the form with a ticket confirmation and an Idle session.
C5_PotholeThreeAnswers ==
    [][\A u \in Inputs.utter :
         /\ (Step(u) /\ ~Collecting /\ u.tnorm = "report a pothole")
               => /\ active_intent' = "pothole"
                  /\ Last(messages').content.kind = "start"
                  /\ Last(messages').content.text = FIELD_QUESTIONS["street_address"]
         /\ PotholeAnswer(u, "street_address")
               => /\ Last(messages') = Asked("description")
                  /\ \A i \in 2..(Len(messages') - 1) :
                        messages'[i].content.kind \in VerificationKinds
         /\ PotholeAnswer(u, "description")
               => /\ messages' = <<UserMsg(u.text), Asked("photo_url_optional")>>
                  /\ ~TicketCreated
                  /\ active_intent' = "pothole"
         /\ PotholeAnswer(u, "photo_url_optional")
               => /\ TicketCreated
                  /\ Last(ticket_log').service = "pothole"
                  /\ DOMAIN messages' = 1..2
                  /\ messages'[2].content.kind = "submitted"
                  /\ messages'[2].content.ticket_id = Last(ticket_log').ticket_id
                  /\ FormCleared]_vars

\* a pothole ticket was submitted by skipping the photo URL
C5_Witness ==
    /\ messages[1] = UserMsg("skip")
    /\ ReplyKinds(messages) = {"submitted"}
    /\ Len(ticket_log) = 1
    /\ Last(ticket_log).service = "pothole"
    /\ Last(ticket_log).payload["photo_url_optional"] = VNone
    /\ active_intent = NoIntent

IntentKinds == {"adapted", "start", "info", "fallback", "menu", "reset", "canceled"}

\* C6: while Collecting, a non-reserved utterance is the answer to the head
\* field: unless it is a malformed ZIP, it is stored for that field; it never
\* starts another form, adapts the city or gets an Idle reply; the profile
\* changes only by an address verification's switch.
C6_AnswerNotReclassified ==
    [][\A u \in Inputs.utter :
         AnswerStep(u) =>
            /\ AcceptedStep(u) =>
                  \/ StoredAs(Head(pending_fields), VStr(u.val))
                  \/ StoredAs(Head(pending_fields), VNone)
            /\ \/ active_intent' = active_intent
               \/ active_intent' = NoIntent /\ TicketCreated
            /\ ReplyKinds(messages') \cap IntentKinds = {}
            /\ city_cfg' # city_cfg => "switched" \in ReplyKinds(messages')]_vars

\* an utterance with a pothole keyword is held as the trash form's address
C6_Witness ==
    /\ active_intent = "trash_schedule"
    /\ messages[1] = UserMsg("report a pothole")
    /\ "street_address" \in DOMAIN filled_fields
    /\ filled_fields["street_address"] = VStr("report a pothole")

\* C7: "menu" while Collecting is answered with the service list of the
\* current profile, and intent, pending and filled fields stay as they were.
C7_MenuKeepsForm ==
    [][\A u \in Inputs.utter :
         (Step(u) /\ Collecting /\ u.tnorm = "menu") =>
            /\ messages' = <<UserMsg(u.text),
                             Reply([kind |-> "menu", services |-> DOMAIN city_cfg.services])>>
            /\ UNCHANGED <<active_intent, pending_fields, filled_fields, city_cfg, ticket_log, db>>]_vars

\* the menu was shown in the middle of a form with an answer already given
C7_Witness ==
    /\ messages[1] = UserMsg("menu")
    /\ ReplyKinds(messages) = {"menu"}
    /\ Collecting
    /\ filled_fields # EmptyDict

\* C8: "cancel" while Collecting clears intent, pending and filled fields and
\* is answered with the cancellation message; no ticket is made.
C8_CancelClearsForm ==
    [][\A u \in Inputs.utter :
         (Step(u) /\ Collecting /\ u.tnorm = "cancel") =>
            /\ FormCleared
            /\ messages' = <<UserMsg(u.text), Reply([kind |-> "canceled"])>>
            /\ UNCHANGED <<ticket_log, db, city_cfg>>]_vars

\* a form in progress has just been canceled (Idle "cancel" gets the fallback reply)
C8_Witness ==
    /\ messages = <<UserMsg("cancel"), Reply([kind |-> "canceled"])>>
    /\ active_intent = NoIntent
    /\ filled_fields = EmptyDict

\* C9: "reset", "restart" and "start over", in any case and spacing, clear
\* intent, pending and filled fields and are answered with the reset
\* message, whether a form is open or not.
C9_ResetEverywhere ==
    [][\A u \in Inputs.utter :
         (Step(u) /\ u.tnorm \in ResetWords) =>
            /\ FormCleared
            /\ messages' = <<UserMsg(u.text), Reply([kind |-> "reset"])>>
            /\ UNCHANGED <<ticket_log, db, city_cfg>>]_vars

\* "Start  Over" has just reset the session
C9_Witness ==
    /\ messages = <<UserMsg("Start  Over"), Reply([kind |-> "reset"])>>
    /\ active_intent = NoIntent

\* C10: while the head field is the ZIP field, an answer that is non-empty
\* after trimming and is not exactly five digits is answered with the ZIP
\* format message and nothing else; intent, pending and filled fields stay.
C10_ZipNudge ==
    [][\A u \in Inputs.utter :
         (/\ AnswerStep(u)
          /\ Head(pending_fields) = "zip_optional"
          /\ u.val # ""
          /\ ~FiveDigits(u.val)) =>
            /\ messages' = <<UserMsg(u.text), Reply([kind |-> "zip_nudge"])>>
            /\ UNCHANGED <<active_intent, pending_fields, filled_fields, city_cfg, ticket_log, db>>]_vars

\* a three-letter answer to the ZIP question was turned down
C10_Witness ==
    /\ messages = <<UserMsg("abc"), Reply([kind |-> "zip_nudge"])>>
    /\ Head(pending_fields) = "zip_optional"
    /\ active_intent = "trash_schedule"

-----------------------------------------------------------------------------
(* Address verification.  StepWith(u, env) is the chat input of u in which  *)
(* the provider, the clock and the store behaved as env says.               *)

StepWith(u, env) ==
    /\ messages'[1] = UserMsg(u.text)
    /\ Len(ticket_log) < Inputs.max_tickets
    /\ env \in Envs(Inputs, Session, u)
    /\ Install(push_user_and_process(Session, u, addr_provider, env))
    /\ UNCHANGED addr_provider

AddressFields == {"street_address", "nearest_address"}

\* the utterance is an accepted, non-empty answer to an address field
AddressAnswer(u) ==
    /\ Collecting
    /\ u.tnorm \notin ReservedWords
    /\ Head(pending_fields) \in AddressFields
    /\ u.val # ""

\* what the selected provider resolves the address to
Resolved(env) ==
    geocode_any(city_cfg.meta.city, addr_provider, env.google_key, env.hinted, env.bare)

\* C11: an address answer geocoded to a catalog city other than the current
\* one, in North Carolina, leaves the profile of that city (its services are
\* the catalog's entry) and a switch notice naming it among the replies.
C11_CitySwitch ==
    [][\A u \in Inputs.utter : \A env \in Envs(Inputs, Session, u) :
         (/\ StepWith(u, env)
          /\ AddressAnswer(u)
          /\ Resolved(env).found
          /\ title(Resolved(env).city) \in NC_CITIES
          /\ title(Resolved(env).city) # city_cfg.meta.city
          /\ Resolved(env).state \in {"NC", "North Carolina"}) =>
            LET C2 == title(Resolved(env).city)
            IN  /\ city_cfg'.meta.city = C2
                /\ city_cfg'.services = NC_JURIS_CONFIG[C2]
                /\ \E i \in 2..Len(messages') :
                      messages'[i] = Reply([kind |-> "switched", city |-> C2])]_vars

\* a Morrisville form whose address was resolved to Raleigh
C11_Witness ==
    /\ city_cfg.meta.city = "Raleigh"
    /\ city_cfg.services = NC_JURIS_CONFIG["Raleigh"]
    /\ Len(messages) >= 3
    /\ messages[3] = Reply([kind |-> "switched", city |-> "Raleigh"])
    /\ "address_verified" \in DOMAIN filled_fields
    /\ filled_fields["address_verified"] = VDict(GeoRaleigh, "Census")

\* C12: when the provider finds nothing for an answered address field, the
\* trimmed answer is stored for the field, no verified address is recorded,
\* the first reply is the warning, the profile is unchanged, and the turn
\* goes on to the next outstanding field's question or to the ticket.
C12_NotFoundKeepsAnswer ==
    [][\A u \in Inputs.utter : \A env \in Envs(Inputs, Session, u) :
         (/\ StepWith(u, env)
          /\ AddressAnswer(u)
          /\ ~Resolved(env).found) =>
            LET field == Head(pending_fields)
                after == [f \in DOMAIN filled_fields \cup {field} |->
                             IF f = field THEN VStr(u.val) ELSE filled_fields[f]]
                rest == OutstandingFields(active_intent, city_cfg, after)
            IN  /\ StoredAs(field, VStr(u.val))
                /\ messages'[2] = Reply([kind |-> "unverified"])
                /\ Len(messages') = 3
                /\ city_cfg' = city_cfg
                /\ raised' = NoError
                /\ IF rest # << >>
                   THEN /\ messages'[3] = Asked(Head(rest))
                        /\ pending_fields' = rest
                        /\ filled_fields' = after
                        /\ active_intent' = active_intent
                        /\ ~TicketCreated
                   ELSE /\ messages'[3].content.kind = "submitted"
                        /\ TicketCreated
                        /\ Last(ticket_log').payload[field] = VStr(u.val)
                        /\ "address_verified" \notin DOMAIN Last(ticket_log').payload
                        /\ FormCleared]_vars

\* an unverified address was kept and the form asked for the description
C12_Witness ==
    /\ messages = <<UserMsg("abc"), Reply([kind |-> "unverified"]), Asked("description")>>
    /\ active_intent = "pothole"
    /\ filled_fields = [street_address |-> VStr("abc")]

\* C13: after every completed call that leaves an active intent,
\* pending_fields is the required fields not filled followed by the current
\* profile's other declared fields not filled.
C13_PendingIsOutstanding ==
    [][\A u \in Inputs.utter :
         (Step(u) /\ raised' = NoError /\ active_intent' # NoIntent) =>
            /\ active_intent' \in DOMAIN city_cfg'.services
            /\ pending_fields' =
                  OutstandingFields(active_intent', city_cfg', filled_fields')]_vars

-----------------------------------------------------------------------------
(* Finalization *)

\* filled_fields with the answer v recorded for field f
WithAnswer(f, v) ==
    [g \in DOMAIN filled_fields \cup {f} |-> IF g = f THEN v ELSE filled_fields[g]]

\* the accepted answer of u leaves nothing outstanding under the profile the
\* turn ends with
CompletesForm(u) ==
    /\ AcceptedStep(u)
    /\ active_intent \in DOMAIN city_cfg'.services
    /\ OutstandingFields(active_intent, city_cfg',
                         WithAnswer(Head(pending_fields), VStr(u.val))) = << >>

\* C14: the turn whose answer leaves no outstanding field appends exactly one
\* ticket to ticket_log and stores it: its service is the active intent, its
\* city and state those of the profile the turn ends with, its payload holds
\* every entry of filled_fields and the answer; the form is cleared.
C14_FinalizeOnce ==
    [][\A u \in Inputs.utter :
         (Step(u) /\ CompletesForm(u)) =>
            LET t == Last(ticket_log')
            IN  /\ ticket_log' = Append(ticket_log, t)
                /\ t.service = active_intent
                /\ t.city = city_cfg'.meta.city
                /\ t.state = city_cfg'.meta.state
                /\ \A f \in DOMAIN filled_fields \ {Head(pending_fields)} :
                      f \in DOMAIN t.payload /\ t.payload[f] = filled_fields[f]
                /\ Head(pending_fields) \in DOMAIN t.payload
                /\ t.payload[Head(pending_fields)] \in {VStr(u.val), VNone}
                /\ DOMAIN db' = DOMAIN db \cup {t.ticket_id}
                /\ db'[t.ticket_id] = t
                /\ Last(messages').content.kind = "submitted"
                /\ Last(messages').content.ticket_id = t.ticket_id
                /\ FormCleared]_vars

\* a streetlight ticket filed for Raleigh after the address switched the city
C14_Witness ==
    /\ Len(ticket_log) = 1
    /\ ticket_log[1].service = "streetlight"
    /\ ticket_log[1].city = "Raleigh"
    /\ ticket_log[1].ticket_id \in DOMAIN db
    /\ "address_verified" \in DOMAIN ticket_log[1].payload
    /\ Last(messages).content.kind = "submitted"
    /\ active_intent = NoIntent /\ pending_fields = << >> /\ filled_fields = EmptyDict

\* C15: every call completes without raising and leaves the user entry
\* followed by at least one assistant reply.
C15_AlwaysReplies ==
    [][\A u \in Inputs.utter :
         Step(u) => /\ raised' = NoError
                    /\ Len(messages') >= 2
                    /\ \A i \in 2..Len(messages') : messages'[i].role = "assistant"]_vars

-----------------------------------------------------------------------------
(* A store whose INSERT may fail *)

InputsDb ==
    [utter |-> {Heard(t) : t \in {"report a pothole", "trash pickup day", "menu", "cancel",
                                  "skip", "abc", "27560"}},
     geo |-> {<<NoMatch, NoMatch>>, <<GeoRaleigh, GeoRaleigh>>},
     google_key |-> FALSE,
     dates |-> {"261101"},
     rnds |-> {"1000"},
     db_ok |-> {TRUE, FALSE},
     cities |-> {"Morrisville", "Raleigh"},
     providers |-> {"Census (free)"},
     max_tickets |-> MaxTickets]

NextDb ==
    \/ ChatInput(InputsDb)
    \/ ApplyCity(InputsDb)
    \/ SelectProvider(InputsDb)
    \/ ResetConversation

SpecDb == Init /\ [][NextDb]_vars

\* the chat input of u, drawn from the inputs in, with the environment env
TurnIn(in, u, env) ==
    /\ messages'[1] = UserMsg(u.text)
    /\ Len(ticket_log) < in.max_tickets
    /\ env \in Envs(in, Session, u)
    /\ Install(push_user_and_process(Session, u, addr_provider, env))
    /\ UNCHANGED addr_provider

\* C16: when the store's write fails while a completed form is finalized, the
\* confirmation is still the reply and the form is cleared.
C16_WriteFailureDoesNotBlock ==
    [][\A u \in InputsDb.utter : \A env \in Envs(InputsDb, Session, u) :
         (TurnIn(InputsDb, u, env) /\ ~env.db_ok /\ TicketCreated) =>
            /\ Len(messages') >= 2
            /\ Last(messages').content.kind = "submitted"
            /\ FormCleared]_vars

-----------------------------------------------------------------------------
(* Calls of the text functions on their own *)

Blanks == {"", " ", "\t", "A", "b"}

Words ==
    {"", "x", "pothole", "recycle Bin", "LOUD", "lamp", "cat", "permit",
     "help", "hi", "menu", "hello", "start",
     "Yes please ADAPT this to my city's open data  and services categories"}

Texts ==
    {a \o b \o c \o d : a, b, c, d \in Blanks} \cup {a \o " " \o b : a, b \in Words}

InitCalls ==
    /\ SessionInit
    /\ lists = CatalogLists
    /\ profiles = << >>
    /\ arg \in Texts
    /\ ret = NoCall

CallNormalize ==
    /\ ret = NoCall
    /\ ret' = [fn |-> "normalize", v |-> normalize(arg)]
    /\ UNCHANGED <<city_cfg, messages, active_intent, pending_fields, filled_fields,
                   ticket_log, addr_provider, db, raised, lists, profiles, arg>>

\* normalize applied to what normalize returned
CallNormalizeAgain ==
    /\ ret.fn = "normalize"
    /\ ret' = [fn |-> "normalize(normalize)", v |-> normalize(ret.v)]
    /\ UNCHANGED <<city_cfg, messages, active_intent, pending_fields, filled_fields,
                   ticket_log, addr_provider, db, raised, lists, profiles, arg>>

CallDetectIntent ==
    /\ ret = NoCall
    /\ ret' = [fn |-> "detect_intent", v |-> detect_intent(arg)]
    /\ UNCHANGED <<city_cfg, messages, active_intent, pending_fields, filled_fields,
                   ticket_log, addr_provider, db, raised, lists, profiles, arg>>

NextCalls == CallNormalize \/ CallNormalizeAgain \/ CallDetectIntent

SpecCalls == InitCalls /\ [][NextCalls]_vars

HasKey(t, i) == \E k \in INTENT_PATTERNS[i].keys : Contains(t, k)

\* the first row of the table with a keyword in t, and no row before it
FirstRow(t, i) == HasKey(t, i) /\ \A j \in 1..(i - 1) : ~HasKey(t, j)

NoRow(t) == \A i \in 1..Len(INTENT_PATTERNS) : ~HasKey(t, i)

GreetingWords == {"help", "menu", "hi", "hello", "start"}

\* C17 as claimed: on the normalized text, the first table row with a keyword
\* in the text gives the intent; without any keyword the exact greeting
\* words give menu and every other text unknown.
C17_FirstMatchWins ==
    ret.fn = "detect_intent" =>
        LET t == normalize(arg)
        IN  /\ \A i \in 1..Len(INTENT_PATTERNS) :
                  FirstRow(t, i) => ret.v = INTENT_PATTERNS[i].intent
            /\ (NoRow(t) /\ t \in GreetingWords) => ret.v = "menu"
            /\ (NoRow(t) /\ t \notin GreetingWords) => ret.v = "unknown"

\* C17 amended: a normalized text that contains the adapt-city phrase gives
\* adapt_city whatever keywords it holds; for every other text the first
\* table row with a keyword in the text gives the intent, and without any
\* keyword the exact greeting words give menu and every other text unknown.
C17_AdaptThenFirstMatch ==
    ret.fn = "detect_intent" =>
        LET t == normalize(arg)
        IN  IF Contains(t, "yes please adapt this to my city's open data and services categories")
            THEN ret.v = "adapt_city"
            ELSE /\ \A i \in 1..Len(INTENT_PATTERNS) :
                       FirstRow(t, i) => ret.v = INTENT_PATTERNS[i].intent
                 /\ (NoRow(t) /\ t \in GreetingWords) => ret.v = "menu"
                 /\ (NoRow(t) /\ t \notin GreetingWords) => ret.v = "unknown"

\* a text with a trash keyword before a stray-animal keyword was classified
C17_Witness ==
    /\ arg = "cat recycle Bin"
    /\ ret = [fn |-> "detect_intent", v |-> "trash_schedule"]

\* the text is trimmed, lower-case, and every whitespace run is one blank
NormalForm(v) ==
    /\ \A i \in 1..Len(v) : ~InStr(Char(v, i), "ABCDEFGHIJKLMNOPQRSTUVWXYZ\t\n")
    /\ Len(v) > 0 => Char(v, 1) # " " /\ Char(v, Len(v)) # " "
    /\ \A i \in 1..(Len(v) - 1) : ~(Char(v, i) = " " /\ Char(v, i + 1) = " ")

\* C19: normalize returns a trimmed, lower-case text with single blanks,
\* and normalize of that text is the same text.
C19_NormalizeIdempotent ==
    /\ ret.fn = "normalize" => NormalForm(ret.v)
    /\ ret.fn = "normalize(normalize)" => ret.v = normalize(arg) /\ NormalForm(ret.v)

\* normalize was applied twice to a text with a tab, a blank and a capital
C19_Witness ==
    /\ arg = "\tA b"
    /\ ret = [fn |-> "normalize(normalize)", v |-> "a b"]

-----------------------------------------------------------------------------
(* make_city_profile as a maker of objects.  A profile's descriptor is a    *)
(* new dict (dict(v)): its entries are its own, and the entry "fields"      *)
(* holds the reference it was copied with, to the list of the literal.      *)

MaxProfiles == 2

ProfileObject(city, state) ==
    LET key == IF city \in DOMAIN NC_JURIS_CONFIG THEN city ELSE "_DEFAULT"
        base == NC_JURIS_CONFIG[key]
    IN  [meta |-> [city |-> city, state |-> state],
         services |-> [k \in DOMAIN base |-> [fields |-> <<key, k>>, link |-> "literal"]]]

InputsCopy ==
    [cities |-> {"Raleigh", "Cary", "Nowhere"},
     services |-> {"pothole"},
     fields |-> {"cross_street"},
     max_profiles |-> MaxProfiles]

\* a caller builds a profile and keeps it
BuildProfile(in) ==
    /\ Len(profiles) < in.max_profiles
    /\ \E city \in in.cities :
          profiles' = Append(profiles, ProfileObject(city, "North Carolina"))
    /\ UNCHANGED <<city_cfg, messages, active_intent, pending_fields, filled_fields,
                   ticket_log, addr_provider, db, raised, lists, arg, ret>>

\* profile["services"][k]["fields"].append(f)
AppendField(in) ==
    /\ \E i \in DOMAIN profiles : \E k \in in.services : \E f \in in.fields :
          LET a == profiles[i].services[k].fields
          IN  /\ \A n \in 1..Len(lists[a]) : lists[a][n] # f
              /\ lists' = [lists EXCEPT ![a] = Append(@, f)]
    /\ UNCHANGED <<city_cfg, messages, active_intent, pending_fields, filled_fields,
                   ticket_log, addr_provider, db, raised, profiles, arg, ret>>

\* profile["services"][k]["link"] = ...
SetLink(in) ==
    /\ \E i \in DOMAIN profiles : \E k \in in.services :
          /\ profiles[i].services[k].link = "literal"
          /\ profiles' = [profiles EXCEPT ![i].services[k].link = "changed"]
    /\ UNCHANGED <<city_cfg, messages, active_intent, pending_fields, filled_fields,
                   ticket_log, addr_provider, db, raised, lists, arg, ret>>

NextCopy == BuildProfile(InputsCopy) \/ AppendField(InputsCopy) \/ SetLink(InputsCopy)

SpecCopy == Init /\ [][NextCopy]_vars

\* the field list a profile shows for a service
FieldsOf(prof, k, heap) == heap[prof.services[k].fields]

\* C18: whatever is changed in a profile's descriptor, its field list
\* included, the catalog's field lists stay those of the literal, and the
\* field lists the other profiles show stay as they were.
C18_IndependentCopies ==
    [][/\ lists' = CatalogLists
       /\ \A i \in DOMAIN profiles : \A k \in InputsCopy.services :
             (FieldsOf(profiles'[i], k, lists') # FieldsOf(profiles[i], k, lists)) =>
                \A j \in DOMAIN profiles \ {i} :
                   FieldsOf(profiles'[j], k, lists') = FieldsOf(profiles[j], k, lists)]_vars

-----------------------------------------------------------------------------
(* Answers to the ZIP question, blank ones among them *)

InputsZip ==
    [utter |-> {Heard(t) : t \in {"trash pickup day", "report a pothole", "abc", "skip",
                                  "27560", " 27560 ", "2756", "275601", "   ", "\t",
                                  "cancel"}},
     geo |-> {<<NoMatch, NoMatch>>},
     google_key |-> FALSE,
     dates |-> {"261101"},
     rnds |-> {"1000"},
     db_ok |-> {TRUE},
     cities |-> {"Morrisville", "Raleigh"},
     providers |-> {"Census (free)"},
     max_tickets |-> MaxTickets]

NextZip ==
    \/ ChatInput(InputsZip)
    \/ ApplyCity(InputsZip)
    \/ SelectProvider(InputsZip)
    \/ ResetConversation

SpecZip == Init /\ [][NextZip]_vars

ZipValue(v) == v = VNone \/ (v.t = "str" /\ FiveDigits(v.v))

\* C20: the value held for the ZIP field, in the form and in every ticket,
\* is null or a text of exactly five digits.
C20_ZipNullOrFiveDigits ==
    /\ "zip_optional" \in DOMAIN filled_fields => ZipValue(filled_fields["zip_optional"])
    /\ \A i \in 1..Len(ticket_log) :
          "zip_optional" \in DOMAIN ticket_log[i].payload
             => ZipValue(ticket_log[i].payload["zip_optional"])

-----------------------------------------------------------------------------
(* Address-typed fields, the city profile and the tickets' payloads *)

AddressTypedFields == {"street_address", "nearest_address", "location"}

\* C21: a non-empty answer to an address-typed field, location included, is
\* verified in the same turn: the replies hold the verification
\* confirmation or the verification warning.
C21_AddressTypedVerified ==
    [][\A u \in Inputs.utter :
         (/\ AcceptedStep(u)
          /\ Head(pending_fields) \in AddressTypedFields
          /\ u.val # ""
          /\ raised' = NoError) =>
            ReplyKinds(messages') \cap {"verified", "unverified"} # {}]_vars

\* C22: a chat turn changes the city profile only when the adapt-city command
\* is given while no form is in progress, or when a verified address meets
\* the switch conditions; in both cases a reply of the turn names the new
\* city.
C22_ProfileChangesAnnounced ==
    [][\A u \in Inputs.utter :
         (Step(u) /\ city_cfg' # city_cfg) =>
            \/ /\ ~Collecting
               /\ u.intent = "adapt_city"
               /\ messages' = <<UserMsg(u.text),
                                Reply([kind |-> "adapted", city |-> city_cfg'.meta.city,
                                       state |-> city_cfg'.meta.state])>>
            \/ /\ AcceptedStep(u)
               /\ Head(pending_fields) \in AddressFields
               /\ "address_verified" \in DOMAIN filled_fields' \/ TicketCreated
               /\ "verified" \in ReplyKinds(messages')
               /\ \E i \in 2..Len(messages') :
                     messages'[i] = Reply([kind |-> "switched", city |-> city_cfg'.meta.city])
               /\ city_cfg'.meta.city \in NC_CITIES]_vars

\* the adapt-city command has just replaced the Morrisville profile
C22_Witness ==
    /\ city_cfg.meta = [city |-> "Cary", state |-> "Nc"]
    /\ Len(messages) = 2
    /\ messages[2] = Reply([kind |-> "adapted", city |-> "Cary", state |-> "Nc"])

\* C27: the active intent is always a service of the current profile.
C27_ActiveIntentIsService ==
    active_intent # NoIntent => active_intent \in DOMAIN city_cfg.services

\* C28: every ticket's payload holds a non-null entry for each required field
\* of its service, and null is held only for optional-marked fields, in the
\* form and in the tickets.
C28_RequiredFieldsFilled ==
    /\ \A i \in 1..Len(ticket_log) :
          LET t == ticket_log[i]
              req == IF t.service \in DOMAIN REQUIRED_FIELDS
                     THEN REQUIRED_FIELDS[t.service] ELSE << >>
          IN  /\ \A n \in 1..Len(req) :
                    req[n] \in DOMAIN t.payload /\ t.payload[req[n]] # VNone
              /\ \A f \in DOMAIN t.payload : t.payload[f] = VNone => OptionalMarked(f)
    /\ \A f \in DOMAIN filled_fields : filled_fields[f] = VNone => OptionalMarked(f)

\* a streetlight ticket made after a city switch, skip given for an address
C28_Witness ==
    /\ Len(ticket_log) = 1
    /\ ticket_log[1].service = "streetlight"
    /\ ticket_log[1].payload["nearest_address"] = VStr("skip")
    /\ ticket_log[1].city = "Raleigh"

-----------------------------------------------------------------------------
(* Sessions that file more than one ticket *)

MaxLog == 2

InputsLog ==
    [utter |-> {Heard(t) : t \in {"trash pickup day", "abc", "27560", "menu", "cancel",
                                  "reset"}},
     geo |-> {<<NoMatch, NoMatch>>, <<GeoRaleigh, GeoRaleigh>>},
     google_key |-> FALSE,
     dates |-> {"261101"},
     rnds |-> {"1000", "1001"},
     db_ok |-> {TRUE},
     cities |-> {"Morrisville", "Raleigh"},
     providers |-> {"Census (free)"},
     max_tickets |-> MaxLog]

NextLog ==
    \/ ChatInput(InputsLog)
    \/ ApplyCity(InputsLog)
    \/ SelectProvider(InputsLog)
    \/ ResetConversation

SpecLog == Init /\ [][NextLog]_vars

\* C23: every step leaves the tickets already in ticket_log as they are and
\* in place and appends at most one; a ticket is appended only by a chat
\* turn that answers the head field of a form in progress with a
\* non-reserved utterance that is no malformed ZIP, and that turn clears
\* the form.
C23_LogAppendOnly ==
    [][/\ Len(ticket_log') \in {Len(ticket_log), Len(ticket_log) + 1}
       /\ \A i \in 1..Len(ticket_log) : ticket_log'[i] = ticket_log[i]
       /\ TicketCreated =>
             /\ Collecting
             /\ Last(ticket_log').service = active_intent
             /\ FormCleared
             /\ \E u \in InputsLog.utter :
                   /\ \E env \in Envs(InputsLog, Session, u) : TurnIn(InputsLog, u, env)
                   /\ u.tnorm \notin ReservedWords
                   /\ ~(Head(pending_fields) = "zip_optional" /\ ~FiveDigits(u.val))]_vars

\* two tickets, the second filed after the address switched the city
C23_Witness ==
    /\ Len(ticket_log) = 2
    /\ ticket_log[1].city = "Morrisville"
    /\ ticket_log[2].city = "Raleigh"
    /\ ticket_log[1].ticket_id # ticket_log[2].ticket_id

\* C26: the store holds, for every ticket of ticket_log, a row with the
\* ticket's id and the ticket's content.
C26_StoreHoldsEveryTicket ==
    \A i \in 1..Len(ticket_log) :
       /\ ticket_log[i].ticket_id \in DOMAIN db
       /\ db[ticket_log[i].ticket_id] = ticket_log[i]

-----------------------------------------------------------------------------
(* Sessions adapted to cities of any name *)

AdaptText == "Yes please adapt this to my city's open data and services categories."

InputsAdapt ==
    [utter |-> {Heard(t) : t \in {AdaptText,
                                  AdaptText \o " Name is a in the state nc",
                                  AdaptText \o " Name is  in the state nc",
                                  AdaptText \o " Name is 4th town in the state nc",
                                  AdaptText \o " Name is apex in the state nc",
                                  "trash pickup day", "abc", "27560", "cancel"}},
     geo |-> {<<NoMatch, NoMatch>>},
     google_key |-> FALSE,
     dates |-> {"261101"},
     rnds |-> {"1000"},
     db_ok |-> {TRUE},
     cities |-> {"Morrisville"},
     providers |-> {"Census (free)"},
     max_tickets |-> MaxTickets]

NextAdapt ==
    \/ ChatInput(InputsAdapt)
    \/ ApplyCity(InputsAdapt)
    \/ SelectProvider(InputsAdapt)
    \/ ResetConversation

SpecAdapt == Init /\ [][NextAdapt]_vars

AllIn(x, from, to, alphabet) == \A i \in from..to : InStr(Char(x, i), alphabet)

\* two upper-case letters, a dash, six digits, a dash, four digits
TicketIdForm(id) ==
    /\ Len(id) = 14
    /\ AllIn(id, 1, 2, "ABCDEFGHIJKLMNOPQRSTUVWXYZ")
    /\ Char(id, 3) = "-"
    /\ AllIn(id, 4, 9, "0123456789")
    /\ Char(id, 10) = "-"
    /\ AllIn(id, 11, 14, "0123456789")

\* C24: every ticket's id is two upper-case letters, a dash, six digits, a
\* dash and four digits, the letters being the upper-cased first two
\* characters of the ticket's city.
C24_TicketIdForm ==
    \A i \in 1..Len(ticket_log) :
       /\ TicketIdForm(ticket_log[i].ticket_id)
       /\ Len(ticket_log[i].city) >= 2
       /\ SubSeq(ticket_log[i].ticket_id, 1, 2) = upper(SubSeq(ticket_log[i].city, 1, 2))

-----------------------------------------------------------------------------
(* The three providers, with a key for Google *)

InputsGeo ==
    [utter |-> {Heard(t) : t \in {"Streetlight out", "trash pickup day", "abc", "27560",
                                  "cancel"}},
     geo |-> {<<NoMatch, NoMatch>>, <<NoMatch, GeoMorrisville>>,
              <<GeoMorrisville, GeoMorrisville>>},
     google_key |-> TRUE,
     dates |-> {"261101"},
     rnds |-> {"1000"},
     db_ok |-> {TRUE},
     cities |-> {"Morrisville"},
     providers |-> ProviderNames,
     max_tickets |-> MaxTickets]

NextGeo ==
    \/ ChatInput(InputsGeo)
    \/ ApplyCity(InputsGeo)
    \/ SelectProvider(InputsGeo)
    \/ ResetConversation

SpecGeo == Init /\ [][NextGeo]_vars

\* C25: with every provider, when the query with the city hint finds
\* nothing, the address is queried again without the hint: the address is
\* reported verified if that query finds it, and unverified only if not.
C25_RetryWithoutHint ==
    [][\A u \in InputsGeo.utter : \A env \in Envs(InputsGeo, Session, u) :
         (/\ TurnIn(InputsGeo, u, env)
          /\ AddressAnswer(u)
          /\ city_cfg.meta.city # ""
          /\ ~env.hinted.found) =>
            IF env.bare.found
            THEN /\ "verified" \in ReplyKinds(messages')
                 /\ "unverified" \notin ReplyKinds(messages')
            ELSE "unverified" \in ReplyKinds(messages')]_vars

-----------------------------------------------------------------------------
(* A citizen who keeps answering *)

\* The fields filled so far can only grow up to the finitely many field
\* names of the catalog, so a form whose every accepted answer fills a new
\* field, and whose next question is about a field not filled yet, closes
\* after finitely many accepted answers.

\* C29: every accepted answer given while a form is open either finalizes the
\* form (a ticket is filed and the session is idle) or fills a field that was
\* not filled and leaves a not yet filled field to ask about, whatever the
\* geocoder answers and whichever profile is in force.
C29_AnswerMakesProgress ==
    [][\A u \in Inputs.utter :
         AcceptedStep(u) =>
            \/ TicketCreated /\ FormCleared
            \/ /\ active_intent' # NoIntent /\ pending_fields' # << >>
               /\ DOMAIN filled_fields' # DOMAIN filled_fields
               /\ DOMAIN filled_fields \subseteq DOMAIN filled_fields'
               /\ Head(pending_fields') \notin DOMAIN filled_fields'
               /\ raised' = NoError]_vars

=============================================================================
